---- MODULE Spec2Model ----
(***************************************************************************)
(* A model of the PromptMCP recipe-to-endpoint compiler (src/main.py).     *)
(* Text is modelled as a sequence of one-character strings, so that the    *)
(* string functions of the program (strip, lower, re.sub, str.replace) are *)
(* computed character by character as Python computes them.               *)
(***************************************************************************)
EXTENDS Integers, Sequences, FiniteSets, TLC

VARIABLES
    dirExists,   \* os.path.isdir(dir_path)
    listing,     \* the directory: file name -> document stored under it
    files,       \* load_prompts_from_recipes: the local `files`
    idx,         \* position of the `for fp in files` loop (1-based)
    pc,          \* position of the loader
    recipe,      \* _register_recipe_file: its locals after normalisation
    registry,    \* the host's endpoints, in registration order
    log,         \* the diagnostics emitted through `logger`
    opened,      \* the paths _register_recipe_file was called on, in order
    exc,         \* the exception that left load_prompts_from_recipes
    value,       \* _slugify: the argument under study
    slug,        \* _slugify(value)
    slug2,       \* _slugify(slug)
    parameters,  \* _compute_signature: the argument under study
    compiled,    \* _compute_signature(parameters), or the error it raised
    signature,   \* inspect.Signature(parameters=sig_params), or its error
    renderer,    \* the closure _make_renderer returned
    calls        \* the invocations of the renderer: arguments and result

vars == <<dirExists, listing, files, idx, pc, recipe, registry, log, opened,
          exc, value, slug, slug2, parameters, compiled, signature, renderer,
          calls>>

loaderVars == <<dirExists, listing, files, idx, pc, recipe, registry, log,
                opened, exc>>
slugVars == <<value, slug, slug2>>
sigVars == <<parameters, compiled, signature>>
renderVars == <<renderer, calls>>

----------------------------------------------------------------------------
(* Bounds of the model.                                                    *)

MaxSlugLen == 3
MaxParams == 3
MaxFiles == 3
MaxCalls == 2

----------------------------------------------------------------------------
(* Python values: None, an absent mapping key, and str.                    *)

PyNone == [tag |-> "none", s |-> <<>>]
Absent == [tag |-> "absent", s |-> <<>>]
Str(s) == [tag |-> "str", s |-> s]

\* d.get(key, default)
Get(v, default) == IF v.tag = "absent" THEN default ELSE v

\* str(x)
str(v) == IF v.tag = "none" THEN <<"N", "o", "n", "e">> ELSE v.s

\* truth value of None / a str
Truthy(v) == v.tag = "str" /\ v.s # <<>>

\* x or default
OrElse(v, default) == IF Truthy(v) THEN v ELSE default

----------------------------------------------------------------------------
(* str methods.                                                            *)

Whitespace == {" ", "\t", "\n"}

UpperCase == <<"A", "B", "C", "D", "E", "F", "G", "H", "I", "J", "K", "L", "M",
               "N", "O", "P", "Q", "R", "S", "T", "U", "V", "W", "X", "Y", "Z">>
LowerCase == <<"a", "b", "c", "d", "e", "f", "g", "h", "i", "j", "k", "l", "m",
               "n", "o", "p", "q", "r", "s", "t", "u", "v", "w", "x", "y", "z">>
Digits == {"0", "1", "2", "3", "4", "5", "6", "7", "8", "9"}

Range(f) == {f[i] : i \in DOMAIN f}

LowerChar(c) ==
    IF c \in Range(UpperCase)
    THEN LowerCase[CHOOSE i \in DOMAIN UpperCase : UpperCase[i] = c]
    ELSE c

\* s.lower()
lower(s) == [i \in 1..Len(s) |-> LowerChar(s[i])]

RECURSIVE lstrip(_, _)
lstrip(s, chars) ==
    IF s # <<>> /\ Head(s) \in chars THEN lstrip(Tail(s), chars) ELSE s

RECURSIVE rstrip(_, _)
rstrip(s, chars) ==
    IF s # <<>> /\ s[Len(s)] \in chars
    THEN rstrip(SubSeq(s, 1, Len(s) - 1), chars)
    ELSE s

\* s.strip() and s.strip(chars)
strip(s, chars) == rstrip(lstrip(s, chars), chars)

----------------------------------------------------------------------------
(* _slugify                                                                *)

SlugClass == Range(LowerCase) \cup Digits

\* re.sub(r"[^a-z0-9]+", "_", s)
RECURSIVE SubNonAlnumRuns(_)
SubNonAlnumRuns(s) ==
    IF s = <<>> THEN <<>>
    ELSE IF Head(s) \in SlugClass
         THEN <<Head(s)>> \o SubNonAlnumRuns(Tail(s))
         ELSE <<"_">> \o SubNonAlnumRuns(lstrip(s, Range(s) \ SlugClass))

\* re.sub(r"_+", "_", s)
RECURSIVE SubUnderscoreRuns(_)
SubUnderscoreRuns(s) ==
    IF s = <<>> THEN <<>>
    ELSE IF Head(s) # "_"
         THEN <<Head(s)>> \o SubUnderscoreRuns(Tail(s))
         ELSE <<"_">> \o SubUnderscoreRuns(lstrip(s, {"_"}))

PromptToken == <<"p", "r", "o", "m", "p", "t">>

\* the slug without the trailing .strip("_") of line 43
SlugifyUntrimmed(v) ==
    LET s1 == lower(strip(v, Whitespace))
        s2 == SubNonAlnumRuns(s1)
        s3 == SubUnderscoreRuns(s2)
    IN IF s3 = <<>> THEN PromptToken ELSE s3

_slugify(v) ==
    LET s1 == lower(strip(v, Whitespace))
        s2 == SubNonAlnumRuns(s1)
        s3 == strip(SubUnderscoreRuns(s2), {"_"})
    IN IF s3 = <<>> THEN PromptToken ELSE s3

----------------------------------------------------------------------------
(* _coerce_type and _compute_signature                                     *)

T_string == <<"s", "t", "r", "i", "n", "g">>
T_number == <<"n", "u", "m", "b", "e", "r">>
T_integer == <<"i", "n", "t", "e", "g", "e", "r">>
T_int == <<"i", "n", "t">>
T_float == <<"f", "l", "o", "a", "t">>
T_boolean == <<"b", "o", "o", "l", "e", "a", "n">>
T_bool == <<"b", "o", "o", "l">>
T_required == <<"r", "e", "q", "u", "i", "r", "e", "d">>

\* t is None or a str; the result names the Python type object
_coerce_type(t) ==
    LET n == lower(strip(OrElse(t, Str(T_string)).s, Whitespace))
    IN CASE n = T_string -> "str"
         [] n = T_number -> "float"
         [] n = T_integer -> "int"
         [] n = T_int -> "int"
         [] n = T_float -> "float"
         [] n = T_boolean -> "bool"
         [] n = T_bool -> "bool"
         [] OTHER -> "str"

\* inspect.Parameter(name=...) accepts a name that is an identifier and not a
\* keyword, and raises ValueError otherwise
Letters == Range(LowerCase) \cup Range(UpperCase)
Keywords == {<<"N", "o", "n", "e">>, <<"T", "r", "u", "e">>, <<"i", "f">>,
             <<"i", "n">>, <<"i", "s">>, <<"o", "r">>, <<"a", "s">>}
ValidParameterName(name) ==
    /\ name # <<>>
    /\ name[1] \in Letters \cup {"_"}
    /\ \A i \in 1..Len(name) : name[i] \in Letters \cup Digits \cup {"_"}
    /\ name \notin Keywords

\* line 133: key = str(p.get("key", "")).strip()
KeyOf(p) == strip(str(Get(p.key, Str(<<>>))), Whitespace)

\* line 137 with "" in place of the default "required"
RequirementNoDefault(p) ==
    lower(strip(str(Get(p.requirement, Str(<<>>))), Whitespace))

\* line 137: requirement = str(p.get("requirement", "required")).strip().lower()
RequirementOf(p) ==
    lower(strip(str(Get(p.requirement, Str(T_required))), Whitespace))

\* line 138: desc = str(p.get("description", "")).strip()
DescriptionOf(p) == strip(str(Get(p.description, Str(<<>>))), Whitespace)

\* lines 141-144: Field(description=desc) or Field(default=None, description=desc)
FieldOf(p) ==
    [required |-> RequirementOf(p) = T_required, description |-> DescriptionOf(p)]

\* annotations[key] = py_type
DictSet(d, k, v) == [x \in DOMAIN d \cup {k} |-> IF x = k THEN v ELSE d[x]]

EmptyDict == [x \in {} |-> "str"]

Raised(e) == [tag |-> e, sig_params |-> <<>>, annotations |-> EmptyDict]

\* the loop of lines 132-154 over the entries left, from the lists built so far
RECURSIVE SignatureLoop(_, _)
SignatureLoop(ps, acc) ==
    IF ps = <<>> THEN acc
    ELSE LET p == Head(ps)
             key == KeyOf(p)
             py_type == _coerce_type(Get(p.input_type, Str(T_string)))
         IN IF key = <<>> THEN SignatureLoop(Tail(ps), acc)
            ELSE IF ~ValidParameterName(key) THEN Raised("ValueError")
            ELSE SignatureLoop(Tail(ps),
                    [tag |-> "ok",
                     sig_params |-> Append(acc.sig_params,
                                      [name |-> key,
                                       default |-> FieldOf(p),
                                       annotation |-> py_type]),
                     annotations |-> DictSet(acc.annotations, key, py_type)])

_compute_signature(ps) ==
    SignatureLoop(ps, [tag |-> "ok", sig_params |-> <<>>,
                       annotations |-> EmptyDict])

\* inspect.Signature(parameters=sig_params) raises ValueError on a name that
\* occurs twice (every parameter here has a default and the same kind)
Signature(sig_params) ==
    IF \E i, j \in 1..Len(sig_params) :
            i # j /\ sig_params[i].name = sig_params[j].name
    THEN [tag |-> "ValueError", parameters |-> <<>>]
    ELSE [tag |-> "ok", parameters |-> sig_params]

----------------------------------------------------------------------------
(* _make_renderer                                                          *)

\* text.replace(old, new), old not empty: the occurrences of old are taken
\* from the left, without overlap, and what is inserted is not scanned again
RECURSIVE replace(_, _, _)
replace(text, old, new) ==
    IF Len(text) < Len(old) THEN text
    ELSE IF SubSeq(text, 1, Len(old)) = old
         THEN new \o replace(SubSeq(text, Len(old) + 1, Len(text)), old, new)
         ELSE <<Head(text)>> \o replace(Tail(text), old, new)

\* "{{" + k + "}}"
Placeholder(k) == <<"{", "{">> \o k \o <<"}", "}">>

\* "\n\n".join(text_parts), lines 94-98
JoinedText(instructions, template) ==
    IF instructions # <<>> /\ strip(instructions, Whitespace) # <<>>
    THEN strip(instructions, Whitespace) \o <<"\n", "\n">> \o template
    ELSE template

\* the loop of lines 101-102 over the named values left
RECURSIVE SubstituteLoop(_, _)
SubstituteLoop(text, kwargs) ==
    IF kwargs = <<>> THEN text
    ELSE SubstituteLoop(
            replace(text, Placeholder(Head(kwargs).k),
                    IF Head(kwargs).v = PyNone THEN <<>> ELSE str(Head(kwargs).v)),
            Tail(kwargs))

\* the closure: what it closes over
_make_renderer(instructions, template) ==
    [instructions |-> instructions, template |-> template]

\* the closure called with **kwargs, the named values in iteration order
_fn(closure, kwargs) ==
    SubstituteLoop(JoinedText(closure.instructions, closure.template), kwargs)

----------------------------------------------------------------------------
(* Paths, glob.glob and sorted                                             *)

\* the characters of the paths of the model, in code point order
CharOrder == <<".", "/", "B", "a", "b", "c", "l", "m", "r", "t", "x", "y">>
Ord(c) == CHOOSE i \in DOMAIN CharOrder : CharOrder[i] = c

\* a < b for str
RECURSIVE StrLess(_, _)
StrLess(a, b) ==
    IF b = <<>> THEN FALSE
    ELSE IF a = <<>> THEN TRUE
    ELSE IF Head(a) = Head(b) THEN StrLess(Tail(a), Tail(b))
    ELSE Ord(Head(a)) < Ord(Head(b))

RECURSIVE InsertSorted(_, _)
InsertSorted(x, xs) ==
    IF xs = <<>> THEN <<x>>
    ELSE IF StrLess(Head(xs), x) THEN <<Head(xs)>> \o InsertSorted(x, Tail(xs))
    ELSE <<x>> \o xs

\* the list as globbed, left in the order the two globs gave
Unsorted(xs) == xs

\* sorted(xs), line 292
RECURSIVE sorted(_)
sorted(xs) == IF xs = <<>> THEN <<>> ELSE InsertSorted(Head(xs), sorted(Tail(xs)))

DirPath == <<"r">>

\* os.path.join(dir_path, name)
PathJoin(dir, name) == dir \o <<"/">> \o name

\* os.path.basename(path)
RECURSIVE basename(_)
basename(path) ==
    IF \E i \in 1..Len(path) : path[i] = "/" THEN basename(Tail(path)) ELSE path

Ext_yaml == <<".", "y", "a", "m", "l">>
Ext_yml == <<".", "y", "m", "l">>

\* fnmatch of "*" + ext against a name of the directory; glob leaves out the
\* names that start with a dot
MatchesStar(name, ext) ==
    /\ Len(name) >= Len(ext)
    /\ SubSeq(name, Len(name) - Len(ext) + 1, Len(name)) = ext
    /\ name[1] # "."

\* glob.glob(os.path.join(dir_path, "*" + ext)), the directory being scanned
\* in the order `scan`
glob(scan, ext) ==
    LET hits == SelectSeq(scan, LAMBDA name : MatchesStar(name, ext))
    IN [i \in 1..Len(hits) |-> PathJoin(DirPath, hits[i])]

\* the orders in which a directory scan may yield the names
ScanOrders(names) ==
    {f \in [1..Cardinality(names) -> names] :
        \A i, j \in 1..Cardinality(names) : i # j => f[i] # f[j]}

----------------------------------------------------------------------------
(* Recipe documents: what open() and yaml.safe_load give for a file.       *)

NoRec(tag) ==
    [tag |-> tag, title |-> Absent, description |-> Absent,
     instructions |-> Absent, prompt |-> Absent, parameters |-> <<>>]
MapRec(title, description, instructions, prompt, params) ==
    [tag |-> "map", title |-> title, description |-> description,
     instructions |-> instructions, prompt |-> prompt, parameters |-> params]
\* load: "ok", or the exception open() or yaml.safe_load raised
\* data.tag: "none" (an empty document), "list" (a document that is no
\*   mapping) or "map"; recipe.tag: "absent", "none", "str" (no mapping), "map"
Unloadable(e) ==
    [load |-> e, tag |-> "none", recipe |-> NoRec("absent"),
     name |-> Absent, filename |-> Absent]
Loaded(tag, rec, name, filename) ==
    [load |-> "ok", tag |-> tag, recipe |-> rec, name |-> name,
     filename |-> filename]

NoRecipe ==
    [title |-> <<>>, description |-> <<>>, instructions |-> <<>>,
     template |-> <<>>, parameters |-> <<>>]

\* lines 229-234: the document is loaded, or the exception is caught
LoadFails(doc) == doc.load # "ok"

\* line 237, data.get: data is `yaml.safe_load(f) or {}`, a list has no .get
DataGetRaises(doc) == doc.tag = "list"

\* lines 239-245, recipe.get: recipe is `data.get("recipe", {}) or {}`
RecipeGetRaises(doc) == doc.recipe.tag = "str"

\* lines 237-245
Normalise(doc, path) ==
    LET rec == IF doc.tag = "map" /\ doc.recipe.tag = "map"
               THEN doc.recipe ELSE NoRec("map")
        top == IF doc.tag = "map" THEN doc ELSE Unloadable("ok")
    IN [title |-> OrElse(rec.title,
                    OrElse(top.name,
                      OrElse(top.filename, Str(basename(path))))).s,
        description |-> OrElse(rec.description, Str(<<>>)).s,
        instructions |-> OrElse(rec.instructions, Str(<<>>)).s,
        template |-> OrElse(rec.prompt, Str(<<>>)).s,
        parameters |-> rec.parameters]

\* the test of line 247 never made
NeverMissing(template) == FALSE

\* line 247: `if not template`
TemplateMissing(template) == template = <<>>

----------------------------------------------------------------------------
(* _build_and_register_from_recipe, up to the call of the host             *)

KindText(kind) == IF kind = "prompt" THEN PromptToken ELSE <<"t", "o", "o", "l">>
Capital(kind) ==
    IF kind = "prompt" THEN <<"P", "r", "o", "m", "p", "t">> ELSE <<"T", "o", "o", "l">>
ImportedFrom ==
    <<" ", "i", "m", "p", "o", "r", "t", "e", "d", " ", "f", "r", "o", "m", " ",
      "r", "e", "c", "i", "p", "e", ":", " ">>

\* title or source_name
TitleOr(title, source_name) == IF title # <<>> THEN title ELSE source_name

\* lines 191-204: the callable with its metadata, or the exception raised
BuildEndpoint(kind, r, source_name) ==
    LET c == _compute_signature(r.parameters)
        sg == Signature(c.sig_params)
    IN IF c.tag # "ok" THEN [tag |-> c.tag]
       ELSE IF sg.tag # "ok" THEN [tag |-> sg.tag]
       ELSE [tag |-> "ok",
             kind |-> kind,
             title |-> TitleOr(r.title, source_name),
             name |-> KindText(kind) \o <<"_">>
                        \o _slugify(TitleOr(r.title, source_name)),
             doc |-> IF r.description # <<>> THEN r.description
                     ELSE Capital(kind) \o ImportedFrom \o source_name,
             signature |-> sg.parameters,
             annotations |-> c.annotations,
             fn |-> _make_renderer(r.instructions, r.template),
             source |-> source_name]

Diag(level, event, about) == [level |-> level, event |-> event, about |-> about]

----------------------------------------------------------------------------
(* Values of the variables a specification does not use.                   *)

LoaderIdle ==
    /\ dirExists = FALSE /\ listing = <<>> /\ files = <<>> /\ idx = 0
    /\ pc = "off" /\ recipe = NoRecipe /\ registry = <<>> /\ log = <<>>
    /\ opened = <<>> /\ exc = "none"
SlugIdle == value = <<>> /\ slug = Absent /\ slug2 = Absent
SigIdle == parameters = <<>> /\ compiled = Absent /\ signature = Absent
RenderIdle == renderer = _make_renderer(<<>>, <<>>) /\ calls = <<>>

\* every sequence over `chars` of length at most n
SeqsUpTo(chars, n) == UNION {[1..k -> chars] : k \in 0..n}

----------------------------------------------------------------------------
(* SpecSlug: _slugify applied to every short text, and to its own result.  *)

SlugChars == {"a", "1", "A", "_", " ", "-"}

InitSlug ==
    /\ value \in SeqsUpTo(SlugChars, MaxSlugLen)
    /\ slug = Absent /\ slug2 = Absent
    /\ LoaderIdle /\ SigIdle /\ RenderIdle

Slugify ==
    /\ slug = Absent
    /\ slug' = Str(_slugify(value))
    /\ UNCHANGED <<value, slug2, loaderVars, sigVars, renderVars>>

SlugifyAgain ==
    /\ slug # Absent /\ slug2 = Absent
    /\ slug2' = Str(_slugify(slug.s))
    /\ UNCHANGED <<value, slug, loaderVars, sigVars, renderVars>>

NextSlug == Slugify \/ SlugifyAgain

SpecSlug == InitSlug /\ [][NextSlug]_vars

\* [a-z0-9]+(_[a-z0-9]+)*
MatchesSlugPattern(t) ==
    /\ t # <<>>
    /\ \A i \in 1..Len(t) : t[i] \in SlugClass \cup {"_"}
    /\ t[1] # "_" /\ t[Len(t)] # "_"
    /\ \A i \in 1..(Len(t) - 1) : ~(t[i] = "_" /\ t[i + 1] = "_")

\* C7: _slugify is idempotent, and its result is a non-empty token of the
\* form [a-z0-9]+(_[a-z0-9]+)* or the literal "prompt", with no leading,
\* trailing or doubled underscore, also for empty and all-separator inputs.
C7_SlugIdempotentWellFormed ==
    /\ slug # Absent => (MatchesSlugPattern(slug.s) \/ slug.s = PromptToken)
    /\ slug2 # Absent => slug2 = slug

\* a text with an upper-case letter and a separator was slugified twice
C7_Witness ==
    /\ slug2 # Absent
    /\ value = <<"A", "-", "1">>
    /\ slug.s = <<"a", "_", "1">>

----------------------------------------------------------------------------
(* SpecSig: _compute_signature and inspect.Signature over short raw        *)
(* parameter lists.                                                        *)

P(key, input_type, requirement, description) ==
    [key |-> key, input_type |-> input_type, requirement |-> requirement,
     description |-> description]

P_a_required == P(Str(<<"a">>), Absent, Str(T_required), Absent)
P_empty_required == P(Str(<<>>), Absent, Str(T_required), Absent)
P_b == P(Str(<<"b">>), Absent, Absent, Absent)

RawEntries ==
    {P_a_required, P_empty_required, P_b,
     P(Str(<<" ", "a", " ">>), Str(<<" ", "I", "N", "T">>),
       Str(<<" ", "R", "e", "q", "u", "i", "r", "e", "d", " ">>),
       Str(<<" ", "d">>)),
     P(Str(<<"a">>), Str(T_bool), Str(<<"o", "p", "t">>), Str(<<"e">>)),
     P(Absent, Absent, Absent, Absent),
     P(PyNone, PyNone, PyNone, PyNone),
     P(Str(<<" ", "\t">>), Absent, Str(T_required), Absent),
     P(Str(<<"b">>), Str(<<"b", "o", "g", "u", "s">>), PyNone, PyNone),
     P(Str(<<"1">>), Absent, Absent, Absent)}

InitSig ==
    /\ parameters \in SeqsUpTo(RawEntries, MaxParams)
    /\ compiled = Absent /\ signature = Absent
    /\ LoaderIdle /\ SlugIdle /\ RenderIdle

\* line 194
ComputeSignature ==
    /\ compiled = Absent
    /\ compiled' = _compute_signature(parameters)
    /\ UNCHANGED <<parameters, signature, loaderVars, slugVars, renderVars>>

\* lines 197-198, reached when line 194 returned
ApplySignature ==
    /\ compiled # Absent /\ compiled.tag = "ok" /\ signature = Absent
    /\ signature' = Signature(compiled.sig_params)
    /\ UNCHANGED <<parameters, compiled, loaderVars, slugVars, renderVars>>

NextSig == ComputeSignature \/ ApplySignature

SpecSig == InitSig /\ [][NextSig]_vars

\* the key of a raw entry as text, trimmed (an entry without a key has none)
ClaimKey(p) ==
    IF p.key.tag = "absent" THEN <<>>
    ELSE strip(IF p.key.tag = "none" THEN <<"N", "o", "n", "e">> ELSE p.key.s,
               Whitespace)

\* the requirement of a raw entry is given, and given as "required"
GivenAsRequired(p) ==
    /\ p.requirement.tag = "str"
    /\ lower(strip(p.requirement.s, Whitespace)) = T_required

KeptEntries == SelectSeq(parameters, LAMBDA p : ClaimKey(p) # <<>>)

ExampleParameters == <<P_a_required, P_empty_required, P_b>>

Compiled == compiled # Absent /\ compiled.tag = "ok"

\* C2 as stated: the contract holds the entries with a non-empty trimmed key,
\* in order, each required exactly when its requirement is given as
\* "required"; the example list compiles to a required and b optional.
C2_ContractAsClaimed ==
    Compiled =>
        /\ Len(compiled.sig_params) = Len(KeptEntries)
        /\ \A i \in 1..Len(KeptEntries) :
              /\ compiled.sig_params[i].name = ClaimKey(KeptEntries[i])
              /\ compiled.sig_params[i].default.required
                    = GivenAsRequired(KeptEntries[i])
        /\ parameters = ExampleParameters =>
              /\ [i \in 1..2 |-> compiled.sig_params[i].name] = <<<<"a">>, <<"b">>>>
              /\ compiled.sig_params[1].default.required
              /\ ~compiled.sig_params[2].default.required

\* C2 amended: whenever _compute_signature returns, the contract holds the
\* entries with a non-empty trimmed key, in order, each required exactly when
\* its requirement is absent or is "required" (trimmed, case-insensitive);
\* the example list compiles to a required and b required.
C2_Contract ==
    Compiled =>
        /\ Len(compiled.sig_params) = Len(KeptEntries)
        /\ \A i \in 1..Len(KeptEntries) :
              /\ compiled.sig_params[i].name = ClaimKey(KeptEntries[i])
              /\ compiled.sig_params[i].default.required
                    = (\/ KeptEntries[i].requirement.tag = "absent"
                       \/ GivenAsRequired(KeptEntries[i]))
        /\ parameters = ExampleParameters =>
              /\ [i \in 1..2 |-> compiled.sig_params[i].name] = <<<<"a">>, <<"b">>>>
              /\ compiled.sig_params[1].default.required
              /\ compiled.sig_params[2].default.required

\* the example list was compiled: two entries, the second one for b
C2_Witness ==
    /\ Compiled
    /\ parameters = ExampleParameters
    /\ Len(compiled.sig_params) = 2
    /\ compiled.sig_params[2].name = <<"b">>

\* the entries of the contract under the name k
EntriesNamed(k) ==
    {n \in 1..Len(compiled.sig_params) : compiled.sig_params[n].name = k}

\* C9: when the same non-empty key occurs more than once in the list, the
\* contract has exactly one entry for it, carrying the type, requirement and
\* description of the last occurrence, and compilation and the building of
\* the signature complete without error.
C9_DuplicateOverwrites ==
    \A i, j \in 1..Len(parameters) :
        (/\ i < j
         /\ signature # Absent
         /\ \A n \in 1..Len(KeptEntries) : ValidParameterName(ClaimKey(KeptEntries[n]))
         /\ ClaimKey(parameters[i]) = ClaimKey(parameters[j])
         /\ ClaimKey(parameters[i]) # <<>>
         /\ \A m \in (j + 1)..Len(parameters) :
                ClaimKey(parameters[m]) # ClaimKey(parameters[j]))
        => /\ compiled.tag = "ok"
           /\ Cardinality(EntriesNamed(ClaimKey(parameters[j]))) = 1
           /\ \A n \in EntriesNamed(ClaimKey(parameters[j])) :
                 /\ compiled.sig_params[n].annotation
                       = _coerce_type(Get(parameters[j].input_type, Str(T_string)))
                 /\ compiled.sig_params[n].default = FieldOf(parameters[j])
           /\ signature.tag = "ok"

----------------------------------------------------------------------------
(* SpecRender: a renderer built by _make_renderer, invoked by the host     *)
(* with named values in any iteration order.                               *)

Token_a == <<"{", "{", "a", "}", "}">>
Token_b == <<"{", "{", "b", "}", "}">>

RenderInstructions == {<<>>, <<" ">>, <<"I", " ">>}
RenderTemplates == {Token_a, Token_a \o <<" ">> \o Token_b, <<"H", "i">>}
RenderKeys == {<<"a">>, <<"b">>}
RenderValues == {PyNone, Str(<<"X">>), Str(Token_a), Str(Token_b)}

\* keyword arguments: distinct keys, in some order
KwargsSet ==
    {kw \in SeqsUpTo([k : RenderKeys, v : RenderValues], Cardinality(RenderKeys)) :
        \A i, j \in 1..Len(kw) : i # j => kw[i].k # kw[j].k}

InitRender ==
    /\ renderer \in {_make_renderer(i, t) : i \in RenderInstructions,
                                            t \in RenderTemplates}
    /\ calls = <<>>
    /\ LoaderIdle /\ SlugIdle /\ SigIdle

\* the host invokes the registered callable
Invoke ==
    /\ Len(calls) < MaxCalls
    /\ \E kw \in KwargsSet :
          calls' = Append(calls, [kwargs |-> kw, out |-> _fn(renderer, kw)])
    /\ UNCHANGED <<renderer, loaderVars, slugVars, sigVars>>

NextRender == Invoke

SpecRender == InitRender /\ [][NextRender]_vars

\* pat occurs in text
Occurs(pat, text) ==
    \E i \in 1..(Len(text) - Len(pat) + 1) :
        SubSeq(text, i, i + Len(pat) - 1) = pat

Joined == JoinedText(renderer.instructions, renderer.template)

\* C3: substitution is non-recursive: a {{k2}} token that occurs only inside
\* the value supplied for k1 (which the text has a placeholder for) appears
\* verbatim in the output even when k2 is also supplied, in any iteration
\* order of the supplied values.
C3_NonRecursive ==
    \A c \in 1..Len(calls) :
        \A i, j \in 1..Len(calls[c].kwargs) :
            LET k1 == calls[c].kwargs[i].k
                v1 == calls[c].kwargs[i].v
                k2 == calls[c].kwargs[j].k
            IN (/\ i # j
                /\ v1 # PyNone
                /\ Occurs(Placeholder(k1), Joined)
                /\ ~Occurs(Placeholder(k2), Joined)
                /\ Occurs(Placeholder(k2), v1.s))
               => Occurs(Placeholder(k2), calls[c].out)

\* C8: two invocations of the same renderer with the same key-to-value
\* mapping return identical output text.
C8_Deterministic ==
    \A c, d \in 1..Len(calls) :
        Range(calls[c].kwargs) = Range(calls[d].kwargs)
            => calls[c].out = calls[d].out

----------------------------------------------------------------------------
(* Spec: load_prompts_from_recipes over a directory of recipe documents,   *)
(* the host accepting or refusing each registration.                       *)

Name_a_yml == <<"a", ".", "y", "m", "l">>
Name_b_yaml == <<"b", ".", "y", "a", "m", "l">>
Name_B_yml == <<"B", ".", "y", "m", "l">>
Name_c_txt == <<"c", ".", "t", "x", "t">>
FileNames == {Name_a_yml, Name_b_yaml, Name_B_yml, Name_c_txt}

D_unreadable == Unloadable("OSError")
D_badyaml == Unloadable("YAMLError")
D_empty == Loaded("none", NoRec("absent"), Absent, Absent)
D_list == Loaded("list", NoRec("absent"), Absent, Absent)
D_recipe_str == Loaded("map", NoRec("str"), Absent, Absent)
D_noprompt ==
    Loaded("map", MapRec(Str(<<"T">>), Absent, Absent, Absent, <<P_b>>),
           Absent, Absent)
D_emptyprompt ==
    Loaded("map", MapRec(Absent, Str(<<"d">>), Absent, Str(<<>>), <<>>),
           Str(<<"N">>), Absent)
D_valid ==
    Loaded("map", MapRec(Str(<<"M", "y", " ", "T">>), Str(<<"d">>),
                         Str(<<"I">>), Str(Token_a), <<P_a_required>>),
           Absent, Absent)
D_untitled ==
    Loaded("map", MapRec(Absent, Absent, Absent, Str(<<"H", "i">>), <<>>),
           Absent, Absent)
D_named ==
    Loaded("map", MapRec(PyNone, PyNone, PyNone, Str(Token_b), <<P_b>>),
           PyNone, Str(<<"f", "-", "1">>))
D_dupkeys ==
    Loaded("map", MapRec(Str(<<"T">>), Absent, Absent, Str(Token_a),
                         <<P_a_required, P_a_required>>),
           Absent, Absent)

Docs == {D_unreadable, D_badyaml, D_empty, D_list, D_recipe_str, D_noprompt,
         D_emptyprompt, D_valid, D_untitled, D_named, D_dupkeys}

Init ==
    /\ dirExists \in BOOLEAN
    /\ listing \in UNION {[names -> Docs] :
                             names \in {n \in SUBSET FileNames :
                                           Cardinality(n) <= MaxFiles}}
    /\ ~dirExists => DOMAIN listing = {}
    /\ files = <<>> /\ idx = 0 /\ pc = "start" /\ recipe = NoRecipe
    /\ registry = <<>> /\ log = <<>> /\ opened = <<>> /\ exc = "none"
    /\ SlugIdle /\ SigIdle /\ RenderIdle

\* the for loop of lines 298-299 takes the next file, or ends
Advance ==
    /\ recipe' = NoRecipe
    /\ IF idx < Len(files)
       THEN idx' = idx + 1 /\ pc' = "file"
       ELSE idx' = idx /\ pc' = "done"

\* an exception caught around the registration, the loop going on
SwallowAndContinue(e) == exc' = e /\ Advance

\* nothing catches the exception: it leaves _register_recipe_file and
\* load_prompts_from_recipes
Propagate(e) ==
    /\ exc' = e /\ pc' = "aborted"
    /\ UNCHANGED <<idx, recipe>>

\* the second call of _build_and_register_from_recipe left out
ReturnAfterPrompt == Advance

\* lines 251-261: after the prompt is registered the tool is
ThenRegisterTool == pc' = "tool" /\ UNCHANGED <<idx, recipe>>

\* load_prompts_from_recipes, lines 286-296
Start ==
    /\ pc = "start"
    /\ IF ~dirExists
       THEN /\ log' = Append(log, Diag("warning", "Recipes directory not found", DirPath))
            /\ pc' = "done"
            /\ UNCHANGED <<files, idx>>
       ELSE \E scan \in ScanOrders(DOMAIN listing) :
              /\ files' = sorted(glob(scan, Ext_yaml) \o glob(scan, Ext_yml))
              /\ IF files' = <<>>
                 THEN /\ log' = Append(log, Diag("warning", "No recipe files found", DirPath))
                      /\ pc' = "done" /\ idx' = idx
                 ELSE log' = log /\ pc' = "file" /\ idx' = 1
    /\ UNCHANGED <<dirExists, listing, recipe, registry, opened, exc,
                   slugVars, sigVars, renderVars>>

\* _register_recipe_file(fp), lines 229-249
LoadFile ==
    /\ pc = "file"
    /\ LET path == files[idx]
           doc == listing[basename(path)]
       IN /\ opened' = Append(opened, path)
          /\ IF LoadFails(doc)
             THEN /\ log' = Append(log, Diag("exception", "Failed to load YAML", path))
                  /\ exc' = exc
                  /\ Advance
             ELSE IF DataGetRaises(doc) \/ RecipeGetRaises(doc)
             THEN log' = log /\ Propagate("AttributeError")
             ELSE IF TemplateMissing(Normalise(doc, path).template)
             THEN /\ log' = Append(log, Diag("warning", "Skipping", path))
                  /\ exc' = exc
                  /\ Advance
             ELSE /\ recipe' = Normalise(doc, path)
                  /\ pc' = "prompt"
                  /\ UNCHANGED <<log, exc, idx>>
    /\ UNCHANGED <<dirExists, listing, files, registry,
                   slugVars, sigVars, renderVars>>

\* _build_and_register_from_recipe(kind=MCPPrimitives.prompt, ...), lines 251-259
RegisterPrompt ==
    /\ pc = "prompt"
    /\ LET b == BuildEndpoint("prompt", recipe, basename(files[idx]))
       IN IF b.tag # "ok"
          THEN Propagate(b.tag) /\ UNCHANGED <<registry, log>>
          ELSE \E accepted \in BOOLEAN :
                 IF accepted
                 THEN /\ registry' = Append(registry, b)
                      /\ log' = Append(log, Diag("info", "Registered prompt", b.source))
                      /\ exc' = exc
                      /\ ThenRegisterTool
                 ELSE Propagate("HostError") /\ UNCHANGED <<registry, log>>
    /\ UNCHANGED <<dirExists, listing, files, opened,
                   slugVars, sigVars, renderVars>>

\* _build_and_register_from_recipe(kind=MCPPrimitives.tool, ...), lines 261-269
RegisterTool ==
    /\ pc = "tool"
    /\ LET b == BuildEndpoint("tool", recipe, basename(files[idx]))
       IN IF b.tag # "ok"
          THEN Propagate(b.tag) /\ UNCHANGED <<registry, log>>
          ELSE \E accepted \in BOOLEAN :
                 IF accepted
                 THEN /\ registry' = Append(registry, b)
                      /\ log' = Append(log, Diag("info", "Registered tool", b.source))
                      /\ exc' = exc
                      /\ Advance
                 ELSE Propagate("HostError") /\ UNCHANGED <<registry, log>>
    /\ UNCHANGED <<dirExists, listing, files, opened,
                   slugVars, sigVars, renderVars>>

Next == Start \/ LoadFile \/ RegisterPrompt \/ RegisterTool

Spec == Init /\ [][Next]_vars

----------------------------------------------------------------------------
(* The claims about the loader.                                            *)

DocAt(i) == listing[basename(files[i])]

\* the document does not parse as the expected format: unreadable, invalid
\* syntax, no mapping, or a recipe that is no mapping
Malformed(doc) ==
    \/ doc.load # "ok"
    \/ doc.tag = "list"
    \/ doc.recipe.tag = "str"

\* the document parses, and its recipe has no prompt or an empty one
EmptyTemplate(doc) ==
    /\ ~Malformed(doc)
    /\ \/ doc.tag = "none"
       \/ doc.recipe.tag \in {"absent", "none"}
       \/ doc.recipe.prompt.tag # "str"
       \/ doc.recipe.prompt.s = <<>>

\* the document parses into a recipe with a non-empty template
ValidDoc(doc) == ~Malformed(doc) /\ ~EmptyTemplate(doc)

\* the registrations of one kind made for the i-th file
EndpointsOf(i, kind) ==
    {n \in 1..Len(registry) :
        registry[n].source = basename(files[i]) /\ registry[n].kind = kind}

DiagsOf(event, about) ==
    {n \in 1..Len(log) : log[n].event = event /\ log[n].about = about}

\* the loader went through the i-th file and on
Completed(i) == i < idx \/ (i = idx /\ pc = "done")
\* an exception left the loader in the i-th file
AbortedIn(i) == i = idx /\ pc = "aborted"

\* C1 as stated: a file whose document does not parse gets exactly one
\* failure diagnostic and no endpoint, the loader goes on past it, and
\* (no registration failing) every valid file of the batch ends up with its
\* two endpoints.
C1_ParseFailureConfined ==
    /\ \A i \in 1..Len(opened) :
          Malformed(DocAt(i)) =>
              /\ Cardinality(DiagsOf("Failed to load YAML", files[i])) = 1
              /\ EndpointsOf(i, "prompt") \cup EndpointsOf(i, "tool") = {}
              /\ ~AbortedIn(i)
    /\ (pc \in {"done", "aborted"} /\ exc \notin {"HostError", "ValueError"}) =>
          \A i \in 1..Len(files) :
              ValidDoc(DocAt(i)) =>
                  /\ Cardinality(EndpointsOf(i, "prompt")) = 1
                  /\ Cardinality(EndpointsOf(i, "tool")) = 1

\* C4 as stated: once the loader has finished with a file, by completing or
\* by aborting, the file has as many prompt endpoints as tool endpoints, one
\* of each for a valid file and none for a skipped or failed file.
C4_OneOfEachAsClaimed ==
    \A i \in 1..Len(files) :
        (Completed(i) \/ AbortedIn(i)) =>
            /\ Cardinality(EndpointsOf(i, "prompt"))
                  = Cardinality(EndpointsOf(i, "tool"))
            /\ (ValidDoc(DocAt(i)) /\ Completed(i)) =>
                  Cardinality(EndpointsOf(i, "prompt")) = 1
            /\ ~ValidDoc(DocAt(i)) =>
                  Cardinality(EndpointsOf(i, "prompt")) = 0

\* C4 amended: a file the loader has completed has as many prompt endpoints
\* as tool endpoints, one of each when its recipe has a non-empty template
\* and none when it was skipped or failed to parse; a file in which an
\* exception left the loader has no tool endpoint and at most one prompt
\* endpoint.
C4_OneOfEach ==
    \A i \in 1..Len(files) :
        /\ Completed(i) =>
              /\ Cardinality(EndpointsOf(i, "prompt"))
                    = (IF ValidDoc(DocAt(i)) THEN 1 ELSE 0)
              /\ Cardinality(EndpointsOf(i, "tool"))
                    = (IF ValidDoc(DocAt(i)) THEN 1 ELSE 0)
        /\ AbortedIn(i) =>
              /\ EndpointsOf(i, "tool") = {}
              /\ Cardinality(EndpointsOf(i, "prompt")) <= 1

\* the loader is done with a batch holding a registered and a skipped file
C4_Witness ==
    /\ pc = "done"
    /\ \E i, j \in 1..Len(files) :
          /\ ValidDoc(DocAt(i))
          /\ Cardinality(EndpointsOf(i, "prompt")) = 1
          /\ Cardinality(EndpointsOf(i, "tool")) = 1
          /\ EmptyTemplate(DocAt(j))

C5_Inv ==
    \A i \in 1..Len(opened) :
        EmptyTemplate(DocAt(i)) =>
            /\ Cardinality(DiagsOf("Skipping", files[i])) = 1
            /\ EndpointsOf(i, "prompt") \cup EndpointsOf(i, "tool") = {}
            /\ Completed(i)
            /\ i < Len(files) => Len(opened) > i \/ pc = "file"

C5_Step ==
    (pc = "file" /\ EmptyTemplate(DocAt(idx))) =>
        /\ registry' = registry
        /\ exc' = exc
        /\ log' = Append(log, Diag("warning", "Skipping", files[idx]))

\* C5: a parsed recipe whose prompt is missing or empty registers nothing,
\* gets exactly one skip diagnostic naming the file, leaves the registry
\* unchanged, and the loader goes on to the remaining files.
C5_EmptyTemplateSkipped == []C5_Inv /\ [][C5_Step]_vars

\* the first file was skipped and the second one registered
C5_Witness ==
    /\ pc = "done"
    /\ Len(opened) >= 2
    /\ EmptyTemplate(DocAt(1))
    /\ DocAt(1).tag = "map"
    /\ Len(registry) = 2

\* what the registry holds of the files before the i-th, each completed
RECURSIVE RegisteredBefore(_)
RegisteredBefore(i) ==
    IF i <= 1 THEN <<>>
    ELSE RegisteredBefore(i - 1) \o
         (IF ValidDoc(DocAt(i - 1))
          THEN << <<"prompt", basename(files[i - 1])>>,
                  <<"tool", basename(files[i - 1])>> >>
          ELSE <<>>)

RegistryKeys == [n \in 1..Len(registry) |-> <<registry[n].kind, registry[n].source>>]

\* C6: when the host refuses a registration the failure leaves the loader:
\* no later file is parsed or registered, the failing file gets no further
\* endpoint, and what was registered before stays registered.
C6_HostFailurePropagates ==
    exc = "HostError" =>
        /\ pc = "aborted"
        /\ opened = SubSeq(files, 1, idx)
        /\ \/ RegistryKeys = RegisteredBefore(idx)
           \/ RegistryKeys = Append(RegisteredBefore(idx),
                                    <<"prompt", basename(files[idx])>>)

\* the tool of the second file was refused, a third file being left
C6_Witness ==
    /\ exc = "HostError"
    /\ idx = 2 /\ Len(files) = 3
    /\ Len(registry) = 3

PathOf(n) == PathJoin(DirPath, registry[n].source)

\* C10: the files are the *.yaml and *.yml matches in lexicographic order
\* of path; endpoints are registered file by file in that order, the prompt
\* of a file before its tool, and no endpoint of a later file before both
\* endpoints of every earlier valid file.
C10_RegistrationOrder ==
    /\ (pc # "start" /\ dirExists) =>
          /\ Range(files) = {PathJoin(DirPath, n) :
                               n \in {m \in DOMAIN listing :
                                         \/ MatchesStar(m, Ext_yaml)
                                         \/ MatchesStar(m, Ext_yml)}}
          /\ \A i, j \in 1..Len(files) : i < j => StrLess(files[i], files[j])
    /\ \A m, n \in 1..Len(registry) :
          m < n =>
              /\ PathOf(m) = PathOf(n) \/ StrLess(PathOf(m), PathOf(n))
              /\ PathOf(m) = PathOf(n) =>
                    registry[m].kind = "prompt" /\ registry[n].kind = "tool"
    /\ \A n \in 1..Len(registry) :
          \A i \in 1..Len(files) :
              (ValidDoc(DocAt(i)) /\ StrLess(files[i], PathOf(n))) =>
                  \E m1, m2 \in 1..(n - 1) :
                      /\ m1 < m2
                      /\ RegistryKeys[m1] = <<"prompt", basename(files[i])>>
                      /\ RegistryKeys[m2] = <<"tool", basename(files[i])>>

\* a *.yml file was registered before a *.yaml file, after B.yml
C10_Witness ==
    /\ Len(registry) = 6
    /\ RegistryKeys[1] = <<"prompt", Name_B_yml>>
    /\ RegistryKeys[4] = <<"tool", Name_a_yml>>
    /\ RegistryKeys[5] = <<"prompt", Name_b_yaml>>

====
